---- MODULE Spec2Model ----
(***************************************************************************)
(* Legged odometry of mc_state_observation: the contact registry           *)
(* (ContactsManager), the per-cycle contact classification, the selection  *)
(* of the contacts used for the orientation odometry, the force-weighted   *)
(* fusion of the floating-base pose and the reference kinematics of newly  *)
(* set contacts (LeggedOdometryManager).                                   *)
(*                                                                         *)
(* Real quantities are exact rationals <<n, d>> in lowest terms with       *)
(* d > 0; <<0, 0>> stands for a non-finite double (the result of a         *)
(* division by 0.0).  A position is <<x, z>> (one horizontal and the       *)
(* vertical coordinate); an orientation is [tilt, yaw], rotations compose  *)
(* by adding both components.                                              *)
(***************************************************************************)
EXTENDS Integers, Sequences, FiniteSets, TLC

\* ------------------------------------------------------------------ bounds

\* number of odometry cycles explored
MaxCycles == 3

\* number of stand-alone addContact calls explored
MaxAdds == 4

\* ------------------------------------------------------------------ inputs

\* force sensors (= contact names) of the robot, in the order the robot lists them
RobotSensors == <<"LeftFoot", "RightFoot", "LeftHand">>

Names == {RobotSensors[k] : k \in 1..Len(RobotSensors)}

\* surface arguments given to addContact ("" : the overload without surface)
Surfaces == {"", "Sole"}

\* snapshots of the host robot a cycle may see: joint configuration, pose of the real
\* robot (with the tilt estimated upstream) and force sensor readings
Snapshots == {0, 1}

\* yaw values an uninitialised orientation may hold
JunkYaws == {<<0, 1>>, <<7, 1>>}

\* ------------------------------------------------------------- rationals

RECURSIVE Gcd(_, _)
Gcd(a, b) == IF b = 0 THEN a ELSE Gcd(b, a % b)

Abs(n) == IF n < 0 THEN -n ELSE n

NaN == <<0, 0>>

IsFinite(r) == r[2] # 0

Rat(n) == <<n, 1>>

Normalize(n, d) ==
  IF d = 0 THEN NaN
  ELSE LET g == Gcd(Abs(n), Abs(d))
           s == IF d < 0 THEN -1 ELSE 1
       IN  <<s * (n \div g), s * (d \div g)>>

RAdd(a, b) ==
  IF IsFinite(a) /\ IsFinite(b) THEN Normalize(a[1] * b[2] + b[1] * a[2], a[2] * b[2]) ELSE NaN

RNeg(a) == <<-a[1], a[2]>>

RSub(a, b) == RAdd(a, RNeg(b))

RMul(a, b) ==
  IF IsFinite(a) /\ IsFinite(b) THEN Normalize(a[1] * b[1], a[2] * b[2]) ELSE NaN

\* a / b in doubles: a division by 0.0 gives a non-finite value
RDiv(a, b) ==
  IF IsFinite(a) /\ IsFinite(b) /\ b[1] # 0 THEN Normalize(a[1] * b[2], a[2] * b[1]) ELSE NaN

RLess(a, b) == IsFinite(a) /\ IsFinite(b) /\ a[1] * b[2] < b[1] * a[2]

\* ---------------------------------------------------------------- vectors

VZero == <<Rat(0), Rat(0)>>

VAdd(u, v) == <<RAdd(u[1], v[1]), RAdd(u[2], v[2])>>

VSub(u, v) == <<RSub(u[1], v[1]), RSub(u[2], v[2])>>

VScale(u, r) == <<RMul(u[1], r), RMul(u[2], r)>>

VDiv(u, r) == <<RDiv(u[1], r), RDiv(u[2], r)>>

\* ----------------------------------------------------------- orientations

OZero == [tilt |-> 0, yaw |-> Rat(0)]

OCompose(a, b) == [tilt |-> a.tilt + b.tilt, yaw |-> RAdd(a.yaw, b.yaw)]

OTranspose(a) == [tilt |-> -a.tilt, yaw |-> RNeg(a.yaw)]

\* the yaw angles are counted in eighths of a turn: half a turn
HalfTurn == 4

\* the angle of log(R) for a rotation R about the vertical of angle d: the angle equal
\* to d up to whole turns in the range (-HalfTurn, HalfTurn]
Principal(d) ==
  IF ~IsFinite(d) THEN NaN
  ELSE LET turn == 2 * HalfTurn * d[2]
           n == d[1] % turn
       IN  Normalize(IF 2 * n > turn THEN n - turn ELSE n, d[2])

PoseZero == [pos |-> VZero, ori |-> OZero]

\* ------------------------------------------------------------------ state

VARIABLES
  pc,                       \* "constructed", "ready" (init returned), "failed" (init threw)
  idx_,                     \* ContactsManager::idx_
  insertOrder_,             \* ContactsManager::insertOrder_
  listContacts_,            \* ContactsManager::listContacts_ : name -> contact
  contactsDetectionMethod_, \* ContactsManager::contactsDetectionMethod_
  contactsFound_,           \* ContactsManager::contactsFound_
  oldContacts_,             \* ContactsManager::oldContacts_
  removedContacts_,         \* ContactsManager::removedContacts_
  oriOdometryContacts_,     \* the ordered set of contact references, as a sequence of ids
  odometry6d_,
  withNaiveYawEstimation_,
  detectionFromThreshold_,
  fbPose_,                  \* tracked pose of the floating base
  odometryRobotPosW,        \* odometryRobot().posW()
  pose,                     \* the pose handed back by run()
  logEntries,               \* the entries registered in the logger: <<contact, suffix>>
  cycle,                    \* number of completed run() calls
  adds,                     \* number of addContact calls made
  obs                       \* what the last operation did (for the properties only)

vars ==
  << pc, idx_, insertOrder_, listContacts_, contactsDetectionMethod_, contactsFound_,
     oldContacts_, removedContacts_, oriOdometryContacts_, odometry6d_,
     withNaiveYawEstimation_, detectionFromThreshold_, fbPose_, odometryRobotPosW, pose,
     logEntries, cycle, adds, obs >>

registryVars == << idx_, insertOrder_, listContacts_ >>

configVars ==
  << contactsDetectionMethod_, odometry6d_, withNaiveYawEstimation_, detectionFromThreshold_ >>

cycleVars ==
  << contactsFound_, oldContacts_, removedContacts_, oriOdometryContacts_, fbPose_,
     odometryRobotPosW, pose, logEntries, cycle >>

\* -------------------------------------------------------------- contacts

\* LoContactWithSensor(id, name) with the surface given to addContactToManager
NewContact(id, name, surface) ==
  [ id                       |-> id,
    name                     |-> name,
    surface                  |-> surface,
    isSet_                   |-> FALSE,
    wasAlreadySet_           |-> FALSE,
    worldRefKine_            |-> PoseZero,
    refWrites                |-> 0,       \* how many times worldRefKine_ was written
    useForOrientation_       |-> FALSE,
    forceNorm_               |-> Rat(0),
    currentWorldOrientation_ |-> OZero,
    oriCycle                 |-> 0 ]      \* cycle that last wrote currentWorldOrientation_

NoObs == [op |-> "none"]

Init ==
  /\ pc = "constructed"
  /\ idx_ = 0
  /\ insertOrder_ = << >>
  /\ listContacts_ = << >>
  /\ contactsDetectionMethod_ = "Undefined"
  /\ contactsFound_ = {}
  /\ oldContacts_ = {}
  /\ removedContacts_ = {}
  /\ oriOdometryContacts_ = << >>
  /\ odometry6d_ = FALSE
  /\ withNaiveYawEstimation_ = FALSE
  /\ detectionFromThreshold_ = FALSE
  /\ fbPose_ = PoseZero
  /\ odometryRobotPosW = PoseZero
  /\ pose = PoseZero
  /\ logEntries = {}
  /\ cycle = 0
  /\ adds = 0
  /\ obs = NoObs

\* ------------------------------------------------------------- registry

\* the registry as one value
Registry == [list |-> listContacts_, order |-> insertOrder_, idx |-> idx_]

Inserted(list, name, c) ==
  [n \in DOMAIN list \cup {name} |-> IF n \in DOMAIN list THEN list[n] ELSE c]

\* a variant of addContactToManager that inserts even under a name already held,
\* overwriting the contact; the idempotence of the insertion must tell it from the code
addContactToManagerOverwrite(reg, name, surface) ==
  [ list  |-> [n \in DOMAIN reg.list \cup {name} |->
                 IF n = name THEN NewContact(reg.idx, name, surface) ELSE reg.list[n]],
    order |-> Append(reg.order, name),
    idx   |-> reg.idx + 1 ]

\* a variant of addContactToManager that forgets to advance idx_; the sequential
\* identifiers must tell it from the code
addContactToManagerNoCount(reg, name, surface) ==
  IF name \in DOMAIN reg.list
  THEN reg
  ELSE [ list  |-> Inserted(reg.list, name, NewContact(reg.idx, name, surface)),
         order |-> Append(reg.order, name),
         idx   |-> reg.idx ]

\* ContactsManager::addContactToManager(forceSensorName, surface): the registry it leaves
addContactToManager(reg, name, surface) ==
  IF name \in DOMAIN reg.list
  THEN reg
  ELSE [ list  |-> Inserted(reg.list, name, NewContact(reg.idx, name, surface)),
         order |-> Append(reg.order, name),
         idx   |-> reg.idx + 1 ]

\* a stand-alone call of addContactToManager; it returns the contact held under the name
AddContact(name, surface) ==
  /\ adds < MaxAdds
  /\ adds' = adds + 1
  /\ \E reg \in {addContactToManager(Registry, name, surface)} :
       /\ listContacts_' = reg.list
       /\ insertOrder_' = reg.order
       /\ idx_' = reg.idx
       /\ obs' = [ op |-> "addContact", name |-> name, surface |-> surface,
                   before |-> Registry, returned |-> reg.list[name] ]
  /\ UNCHANGED << pc, configVars, cycleVars >>

\* ContactsManager::getNameFromIdx : insertOrder_.at(idx)
getNameFromIdx(idx) == insertOrder_[idx + 1]

\* ContactsManager::getIdxFromName : listContacts_.at(name).getID()
getIdxFromName(name) == listContacts_[name].id

\* ContactsManager::contact(idx) : listContacts_.at(getNameFromIdx(idx))
ContactOf(list, order, idx) == list[order[idx + 1]]

\* the result of a call that throws std::out_of_range
OutOfRange == [thrown |-> TRUE]

\* a variant of std::vector::at without the range check, the index taken modulo the
\* size; the failure of a lookup by an unknown id must tell it from the code
VectorAtUnchecked(vec, idx) ==
  IF Len(vec) = 0 THEN OutOfRange
  ELSE [thrown |-> FALSE, value |-> vec[(idx % Len(vec)) + 1]]

\* std::vector::at(idx)
VectorAt(vec, idx) ==
  IF idx \in 0..(Len(vec) - 1) THEN [thrown |-> FALSE, value |-> vec[idx + 1]]
  ELSE OutOfRange

\* std::unordered_map::at(key)
MapAt(map, key) ==
  IF key \in DOMAIN map THEN [thrown |-> FALSE, value |-> map[key]] ELSE OutOfRange

\* the names and the ids contacts are looked up by
LookupNames == Names \cup {"Tail"}

LookupIds == (-1)..Len(RobotSensors)

\* ContactsManager::contact(const std::string & name)
ContactByName(name) ==
  /\ obs' = [ op |-> "contactByName", name |-> name, before |-> Registry,
              result |-> MapAt(listContacts_, name) ]
  /\ UNCHANGED << pc, registryVars, configVars, cycleVars, adds >>

\* ContactsManager::contact(const int idx)
ContactByIdx(idx) ==
  /\ \E name \in {VectorAt(insertOrder_, idx)} :
       obs' = [ op |-> "contactByIdx", idx |-> idx, before |-> Registry,
                result |-> IF name.thrown THEN OutOfRange
                           ELSE MapAt(listContacts_, name.value) ]
  /\ UNCHANGED << pc, registryVars, configVars, cycleVars, adds >>

\* ContactsManager::getNameFromIdx, called with any id
NameFromIdx(idx) ==
  /\ obs' = [ op |-> "getNameFromIdx", idx |-> idx, before |-> Registry,
              result |-> VectorAt(insertOrder_, idx) ]
  /\ UNCHANGED << pc, registryVars, configVars, cycleVars, adds >>

\* ContactsManager::getIdxFromName, called with any name
IdxFromName(name) ==
  /\ \E c \in {MapAt(listContacts_, name)} :
       obs' = [ op |-> "getIdxFromName", name |-> name, before |-> Registry,
                result |-> IF c.thrown THEN OutOfRange
                           ELSE [thrown |-> FALSE, value |-> c.value.id] ]
  /\ UNCHANGED << pc, registryVars, configVars, cycleVars, adds >>

\* ------------------------------------------------------------------- init

\* ContactsManager::strToContactsDetection
strToContactsDetection ==
  [s \in {"Solver", "Surfaces", "Sensors", "Undefined"} |-> s]

\* ContactsManager::stringToContactsDetection : TRUE when it throws
stringToContactsDetectionThrows(str) == str \notin DOMAIN strToContactsDetection

\* configurations the odometry is initialised with: the overload of init, the
\* detection-mode string and the two flags
Configurations ==
  { [overload |-> "surfaces", str |-> "Surfaces",      odometry6d |-> FALSE, naiveYaw |-> TRUE],
    [overload |-> "sensors",  str |-> "Sensors",       odometry6d |-> TRUE,  naiveYaw |-> TRUE],
    [overload |-> "sensors",  str |-> "Solver",        odometry6d |-> FALSE, naiveYaw |-> FALSE],
    [overload |-> "sensors",  str |-> "Undefined",     odometry6d |-> TRUE,  naiveYaw |-> FALSE],
    [overload |-> "sensors",  str |-> "fromThreshold", odometry6d |-> FALSE, naiveYaw |-> TRUE],
    [overload |-> "surfaces", str |-> "Bogus",         odometry6d |-> TRUE,  naiveYaw |-> TRUE] }

\* --------------------------------------------------- host kinematic model

NameNo(name) ==
  CASE name = "LeftFoot" -> 1
    [] name = "RightFoot" -> 2
    [] name = "LeftHand" -> 3
    [] OTHER -> 4

\* the pose of the real robot in snapshot s
RealPose(s) ==
  [pos |-> <<Rat(1 + s), Rat(2 - s)>>, ori |-> [tilt |-> 1 + s, yaw |-> Rat(s)]]

\* realRobot.velW() and realRobot.accW(): the headings of the linear velocity and of the
\* linear acceleration of the real robot in the world in snapshot s
RealVelW(s) == Rat(2 + s)

RealAccW(s) == Rat(3 - s)

\* the norm of the force the sensor of the contact reads in snapshot s
Force(name, s) ==
  IF s = 0
  THEN (IF name = "LeftFoot" THEN 100 ELSE 50)
  ELSE (IF name = "LeftHand" THEN 0 ELSE 50)

\* X_p_f composed with the parent body: the sensor frame relative to the base
SensorRel(name, s) ==
  [ pos |-> <<Rat(NameNo(name) + s), Rat(-NameNo(name) - 2 * s)>>,
    ori |-> [tilt |-> s, yaw |-> Rat(NameNo(name) * s)] ]

\* surfacePose(contact.surface) relative to the base
SurfaceRel(name, s) ==
  [ pos |-> <<Rat(NameNo(name) + 2 * s), Rat(-NameNo(name) - 2 * s - 1)>>,
    ori |-> [tilt |-> 0, yaw |-> Rat(NameNo(name) * s + 1)] ]

\* forward kinematics: a frame given relative to the base, in the world
InWorld(base, rel) ==
  [pos |-> VAdd(base.pos, rel.pos), ori |-> OCompose(base.ori, rel.ori)]

\* LeggedOdometryManager::init, both overloads; contactsManager_.init resolves the
\* detection string with stringToContactsDetection, which throws on an unknown one
InitOdometry(conf, s) ==
  /\ pc = "constructed"
  /\ odometry6d_' = conf.odometry6d
  /\ withNaiveYawEstimation_' = conf.naiveYaw
  /\ fbPose_' = RealPose(s)
  /\ odometryRobotPosW' = RealPose(s)
  /\ detectionFromThreshold_' = (conf.overload = "sensors" /\ conf.str = "fromThreshold")
  /\ IF stringToContactsDetectionThrows(conf.str)
     THEN /\ pc' = "failed"
          /\ UNCHANGED contactsDetectionMethod_
     ELSE /\ pc' = "ready"
          /\ contactsDetectionMethod_' = strToContactsDetection[conf.str]
  /\ obs' = [op |-> "init", conf |-> conf, s |-> s]
  /\ UNCHANGED << registryVars, contactsFound_, oldContacts_, removedContacts_,
                  oriOdometryContacts_, pose, logEntries, cycle, adds >>

\* ------------------------------------------------------ contact detection

\* ids in ascending order, the iteration order of a std::set<int>
RECURSIVE Ascending(_)
Ascending(S) ==
  IF S = {} THEN << >>
  ELSE LET m == CHOOSE m \in S : \A n \in S : m <= n
       IN  <<m>> \o Ascending(S \ {m})

\* the surface a detected sensor is registered with
SurfaceOfSensor(name, method) == IF method = "Sensors" THEN "" ELSE "Sole"

\* the contacts of the detected sensors are created on their first detection, in the
\* order of the robot's sensors
RECURSIVE RegisterDetected(_, _, _, _)
RegisterDetected(reg, sensors, detected, method) ==
  IF sensors = << >> THEN reg
  ELSE RegisterDetected(
         IF Head(sensors) \in detected
         THEN addContactToManager(reg, Head(sensors), SurfaceOfSensor(Head(sensors), method))
         ELSE reg,
         Tail(sensors), detected, method)

\* the classification of the found contacts: the previous active set becomes
\* oldContacts_, removedContacts_ is what left it, wasAlreadySet_ tells the contacts
\* that were active on the previous cycle, a removed contact is not set any more
Classify(list, previous, found) ==
  [ list |->
      [n \in DOMAIN list |->
         [list[n] EXCEPT !.wasAlreadySet_ = (list[n].id \in previous),
                         !.isSet_ = IF list[n].id \in previous \ found THEN FALSE ELSE @]],
    contactsFound |-> found,
    oldContacts |-> previous,
    removedContacts |-> previous \ found ]

\* ContactsManager::findContacts for the sensors detected in contact
findContacts(reg, previous, detected, method) ==
  LET grown == RegisterDetected(reg, RobotSensors, detected, method)
      class == Classify(grown.list, previous, {grown.list[n].id : n \in detected})
  IN  [ list |-> class.list, order |-> grown.order, idx |-> grown.idx,
        contactsFound |-> class.contactsFound,
        oldContacts |-> class.oldContacts,
        removedContacts |-> class.removedContacts ]

\* ------------------------------------------- orientation contact selection

\* a variant of the test on the name that takes no contact for a hand; the candidate set
\* and the orientation force sum must tell it from the code
ContainsHandNever(name) == FALSE

\* name.find("Hand") != std::string::npos
ContainsHand(name) ==
  \E i \in 1..(Len(name) - 3) : SubSeq(name, i, i + 3) = "Hand"

\* a variant of sortByForce ordering by decreasing force; the choice of the two
\* strongest contacts must tell it from the code
sortByForceDescending(c1, c2) == RLess(c2.forceNorm_, c1.forceNorm_)

\* sortByForce::operator()
sortByForce(c1, c2) == RLess(c1.forceNorm_, c2.forceNorm_)

\* std::set::insert under sortByForce: an element equivalent to one already held
\* is not inserted, otherwise it goes after the elements ordered before it
InsertByForce(list, order, set, id) ==
  LET c == ContactOf(list, order, id)
      held(k) == ContactOf(list, order, set[k])
  IN  IF \E k \in 1..Len(set) : ~sortByForce(held(k), c) /\ ~sortByForce(c, held(k))
      THEN set
      ELSE LET before == Cardinality({k \in 1..Len(set) : sortByForce(held(k), c)})
           IN  SubSeq(set, 1, before) \o <<id>> \o SubSeq(set, before + 1, Len(set))

\* the first loop of selectForOrientationOdometry over the ids still to visit
RECURSIVE SelectInsert(_, _, _, _)
SelectInsert(list, order, set, ids) ==
  IF ids = << >> THEN [list |-> list, set |-> set]
  ELSE LET id == Head(ids)
           name == order[id + 1]
       IN  IF ContainsHand(name)
           THEN SelectInsert(list, order, set, Tail(ids))
           ELSE LET marked == [list EXCEPT ![name].useForOrientation_ = TRUE]
                IN  SelectInsert(marked, order, InsertByForce(marked, order, set, id), Tail(ids))

\* a variant of the second loop that stops at three held contacts; the bound on the
\* candidates must tell it from the code
RECURSIVE SelectEvictThree(_, _, _)
SelectEvictThree(list, order, set) ==
  IF Len(set) <= 3 THEN [list |-> list, set |-> set]
  ELSE SelectEvictThree([list EXCEPT ![order[Head(set) + 1]].useForOrientation_ = FALSE],
                        order, Tail(set))

\* the second loop: while more than two are held, the first one is dropped
RECURSIVE SelectEvict(_, _, _)
SelectEvict(list, order, set) ==
  IF Len(set) <= 2 THEN [list |-> list, set |-> set]
  ELSE SelectEvict([list EXCEPT ![order[Head(set) + 1]].useForOrientation_ = FALSE],
                   order, Tail(set))

\* LeggedOdometryManager::selectForOrientationOdometry
selectForOrientationOdometry(list, order, found) ==
  LET filled == SelectInsert(list, order, << >>, Ascending(found))
  IN  SelectEvict(filled.list, order, filled.set)

\* ------------------------------------------------------------ pose fusion

\* LeggedOdometryManager::getContactKinematics: the kinematics of the contact in the
\* world and the force norm the contact holds afterwards
getContactKinematics(c, base, s, fromThreshold) ==
  IF fromThreshold
  THEN [kine |-> InWorld(base, SensorRel(c.name, s)), forceNorm |-> c.forceNorm_]
  ELSE [kine |-> InWorld(base, SurfaceRel(c.name, s)), forceNorm |-> Rat(Force(c.name, s))]

\* a variant of the first loop that takes every found contact as a source; the
\* classification of the contacts must tell it from the code
FusionSourcesAll(list, order, found) == found

\* the found contacts the first loop of updateContacts uses as sources
FusionSources(list, order, found) ==
  {i \in found : ContactOf(list, order, i).wasAlreadySet_}

\* a variant of the candidate with the offset between base and contact reversed; the
\* weighted mean of the candidates must tell it from the code
worldFbPositionOdometryReversed(c, base, kine) ==
  VAdd(c.worldRefKine_.pos, VSub(kine.pos, base.pos))

\* the floating base position a source contact gives
worldFbPositionOdometry(c, base, kine) ==
  VAdd(c.worldRefKine_.pos, VSub(base.pos, kine.pos))

\* one pass of the first loop of updateContacts on a source contact
FuseContact(c, base, s, fromThreshold, naive, cyc) ==
  LET k == getContactKinematics(c, base, s, fromThreshold)
      useOri == naive /\ c.useForOrientation_
  IN  [ contact |->
          [c EXCEPT !.forceNorm_ = k.forceNorm,
                    !.currentWorldOrientation_ =
                       IF useOri
                       THEN OCompose(OCompose(c.worldRefKine_.ori, OTranspose(k.kine.ori)),
                                     base.ori)
                       ELSE @,
                    !.oriCycle = IF useOri THEN cyc ELSE @],
        candidate |-> worldFbPositionOdometry(c, base, k.kine),
        forceNorm |-> k.forceNorm,
        useOri |-> useOri ]

RECURSIVE RSum(_, _)
RSum(f, S) ==
  IF S = {} THEN Rat(0)
  ELSE LET i == CHOOSE i \in S : TRUE IN RAdd(f[i], RSum(f, S \ {i}))

RECURSIVE VSum(_, _)
VSum(f, S) ==
  IF S = {} THEN VZero
  ELSE LET i == CHOOSE i \in S : TRUE IN VAdd(f[i], VSum(f, S \ {i}))

\* fbPose_.translation() = totalFbPosition / sumForces_position
WeightedPosition(totalFbPosition, sumForces_position) ==
  VDiv(totalFbPosition, sumForces_position)

\* the first loop of updateContacts: the sums it accumulates and the contacts it leaves
FusionLoop(list, order, found, base, s, fromThreshold, naive, cyc) ==
  LET sources == FusionSources(list, order, found)
      pass == [i \in sources |->
                 FuseContact(ContactOf(list, order, i), base, s, fromThreshold, naive, cyc)]
      oriSources == {i \in sources : pass[i].useOri}
      force == [i \in sources |-> pass[i].forceNorm]
  IN  [ list |->
          [n \in DOMAIN list |->
             IF list[n].id \in sources THEN pass[list[n].id].contact ELSE list[n]],
        sources |-> sources,
        positionUpdatable |-> sources # {},
        orientationUpdatable |-> oriSources # {},
        sumForces_position |-> RSum(force, sources),
        sumForces_orientation |-> RSum(force, oriSources),
        totalFbPosition |->
          VSum([i \in sources |-> VScale(pass[i].candidate, pass[i].forceNorm)], sources) ]

\* a variant of the merge that keeps the whole second rotation; the roll and pitch of
\* the updated base orientation must tell it from the code
mergeKeepingRotation2(R1, R2) == R2

\* kine::mergeRoll1Pitch1WithYaw2AxisAgnostic
mergeRoll1Pitch1WithYaw2(R1, R2) == [tilt |-> R1.tilt, yaw |-> R2.yaw]

\* a variant of the blend that scales the rotation vector by u instead of 1 - u; the
\* blend under all the force on the first contact must tell it from the code
MeanOriScaledByU(R1, R2, u) ==
  [ tilt |-> R1.tilt,
    yaw  |-> RAdd(R1.yaw, RMul(u, Principal(RSub(R2.yaw, R1.yaw)))) ]

\* R1 * exp((1 - u) * log(R1^T R2)), of which the merge keeps the yaw
MeanOri(R1, R2, u) ==
  [ tilt |-> R1.tilt,
    yaw  |-> RAdd(R1.yaw, RMul(RSub(Rat(1), u), Principal(RSub(R2.yaw, R1.yaw)))) ]

\* the value read from currentWorldOrientation_: a contact whose orientation was never
\* computed holds an uninitialised one, any value may be read
ReadOrientation(c, junk) ==
  IF c.oriCycle = 0 THEN [tilt |-> 0, yaw |-> junk] ELSE c.currentWorldOrientation_

\* the contacts whose currentWorldOrientation_ the orientation update reads
OrientationRead(loop, set) ==
  IF loop.positionUpdatable /\ loop.orientationUpdatable /\ Len(set) \in {1, 2}
  THEN {set[k] : k \in 1..Len(set)}
  ELSE {}

\* double u = contact1.get().forceNorm_ / sumForces_orientation
BlendWeight(contact1, sumForces_orientation) ==
  RDiv(contact1.forceNorm_, sumForces_orientation)

\* the orientation updateContacts gives fbPose_ when it can update it
FusedOrientation(fb, real, list, order, set, sumForces_orientation, junk) ==
  IF Len(set) = 1
  THEN mergeRoll1Pitch1WithYaw2(real.ori,
                                ReadOrientation(ContactOf(list, order, set[1]), junk))
  ELSE IF Len(set) = 2
  THEN LET contact1 == ContactOf(list, order, set[1])
           contact2 == ContactOf(list, order, set[2])
           u == BlendWeight(contact1, sumForces_orientation)
       IN  mergeRoll1Pitch1WithYaw2(real.ori,
             MeanOri(ReadOrientation(contact1, junk), ReadOrientation(contact2, junk), u))
  ELSE fb.ori

\* a variant of the fused pose that falls back on the pose of the real robot when no
\* source contact is available; the held estimate must tell it from the code
FusedPoseFromReal(fb, real, loop, order, set, junk) ==
  IF loop.positionUpdatable
  THEN [ pos |-> WeightedPosition(loop.totalFbPosition, loop.sumForces_position),
         ori |-> IF loop.orientationUpdatable
                 THEN FusedOrientation(fb, real, loop.list, order, set,
                                       loop.sumForces_orientation, junk)
                 ELSE fb.ori ]
  ELSE real

\* a variant of the fused pose that updates the orientation from the candidate set
\* whenever the position is updated; the orientation kept by a cycle that cannot
\* estimate it must tell it from the code
FusedPoseOrientationAlways(fb, real, loop, order, set, junk) ==
  IF loop.positionUpdatable
  THEN [ pos |-> WeightedPosition(loop.totalFbPosition, loop.sumForces_position),
         ori |-> FusedOrientation(fb, real, loop.list, order, set,
                                  loop.sumForces_orientation, junk) ]
  ELSE fb

\* the pose updateContacts leaves in fbPose_
FusedPose(fb, real, loop, order, set, junk) ==
  IF loop.positionUpdatable
  THEN [ pos |-> WeightedPosition(loop.totalFbPosition, loop.sumForces_position),
         ori |-> IF loop.orientationUpdatable
                 THEN FusedOrientation(fb, real, loop.list, order, set,
                                       loop.sumForces_orientation, junk)
                 ELSE fb.ori ]
  ELSE fb

\* a variant of the copy of the real robot's configuration that leaves the floating
\* base of the odometry robot where the last cycle put it; the base pose under the
\* contact kinematics must tell it from the code
mbcCopyKeepingBase(posW, real) == posW

\* odometryRobot().mbc() = realRobot.mbc(), then forwardKinematics(): the floating base
\* of the odometry robot takes the pose of the real robot with the joints
mbcCopy(posW, real) == real

\* a variant of the update of the odometry robot that leaves its floating base where
\* the contact kinematics were computed; the anchors of the new contacts must tell it
\* from the code
posWKept(posW, fb) == posW

\* odometryRobot().posW(fbPose_), then forwardKinematics(): the floating base of the
\* odometry robot takes the fused pose
posWFromFbPose(posW, fb) == fb

\* LeggedOdometryManager::updateFbKinematics: the pose is the one of the odometry
\* robot, the velocity and acceleration of the real robot are taken to its local frame
\* and expressed in the frame of the odometry robot
updateFbKinematics(posW, real, velW, accW) ==
  [ pose |-> posW,
    vels |-> RAdd(RSub(velW, real.ori.yaw), posW.ori.yaw),
    accs |-> RAdd(RSub(accW, real.ori.yaw), posW.ori.yaw) ]

\* ---------------------------------------------------- reference kinematics

\* a variant of the reference height that keeps the measured height in flat mode; the
\* zero reference height must tell it from the code
RefHeightKept(z, o6d) == z

\* worldRefKine_.position()(2) = 0.0 unless the odometry is 6D
RefHeight(z, o6d) == IF o6d THEN z ELSE Rat(0)

\* LeggedOdometryManager::setNewContact: the reference kinematics of a new contact
setNewContact(c, base, s, fromThreshold, o6d) ==
  LET k == IF fromThreshold
           THEN InWorld(base, SensorRel(c.name, s))
           ELSE InWorld(base, SurfaceRel(c.name, s))
  IN  [pos |-> <<k.pos[1], RefHeight(k.pos[2], o6d)>>, ori |-> k.ori]

\* a variant of the second loop that sets every found contact anew; the validity of
\* the reference kinematics over a stance must tell it from the code
NewlySetAll(list, order, found) == found

\* the found contacts the second loop of updateContacts sets as new contacts
NewlySet(list, order, found) ==
  {i \in found : ~ContactOf(list, order, i).wasAlreadySet_}

\* a variant of the second loop that leaves isSet_ of the new contacts as it was; the
\* flag of the active contacts must tell it from the code
NewContactsLoopFlagKept(list, order, found, base, s, fromThreshold, o6d) ==
  LET new == NewlySet(list, order, found)
  IN  [n \in DOMAIN list |->
         IF list[n].id \in new
         THEN [list[n] EXCEPT !.worldRefKine_ = setNewContact(list[n], base, s, fromThreshold, o6d),
                              !.refWrites = @ + 1]
         ELSE list[n]]

\* the second loop of updateContacts
NewContactsLoop(list, order, found, base, s, fromThreshold, o6d) ==
  LET new == NewlySet(list, order, found)
  IN  [n \in DOMAIN list |->
         IF list[n].id \in new
         THEN [list[n] EXCEPT !.isSet_ = TRUE,
                              !.worldRefKine_ = setNewContact(list[n], base, s, fromThreshold, o6d),
                              !.refWrites = @ + 1]
         ELSE list[n]]

\* the three entries of a contact, named odometryName_ + "_" + contactName + suffix
LogSuffixes == {"_ref_position", "_ref_orientation", "_ref_orientation_RollPitchYaw"}

LogEntriesOf(contactName) == {<<contactName, suffix>> : suffix \in LogSuffixes}

\* a variant of the removal that leaves the entry of the roll, pitch and yaw in the
\* logger; the entries registered after a removal must tell it from the code
removeContactLogEntriesButRollPitchYaw(log, contactName) ==
  log \ {<<contactName, "_ref_position">>, <<contactName, "_ref_orientation">>}

\* LeggedOdometryManager::removeContactLogEntries
removeContactLogEntries(log, contactName) == log \ LogEntriesOf(contactName)

\* LeggedOdometryManager::addContactLogEntries
addContactLogEntries(log, contactName) == log \cup LogEntriesOf(contactName)

\* the logger after the second and the third loop of updateContacts: the entries of the
\* new contacts are added, then the entries of the removed contacts are removed
RECURSIVE LogNewContacts(_, _, _)
LogNewContacts(log, order, ids) ==
  IF ids = << >> THEN log
  ELSE LogNewContacts(addContactLogEntries(log, order[Head(ids) + 1]), order, Tail(ids))

RECURSIVE LogRemovedContacts(_, _, _)
LogRemovedContacts(log, order, ids) ==
  IF ids = << >> THEN log
  ELSE LogRemovedContacts(removeContactLogEntries(log, order[Head(ids) + 1]), order, Tail(ids))

\* a variant of the loop over the removed contacts that erases them from the map of
\* contacts; the permanence of the registry must tell it from the code
RemovedContactsLoopErasing(list, order, removed) ==
  [n \in {n \in DOMAIN list : list[n].id \notin removed} |-> list[n]]

\* the third loop of updateContacts: the removed contacts lose their log entries and
\* stay in the map of contacts
RemovedContactsLoop(list, order, removed) == list

\* the contacts of ids, in ascending order of id, each with the handling it gets
Handled(kind, ids) == [k \in 1..Cardinality(ids) |-> <<kind, Ascending(ids)[k]>>]

\* a variant of the order of the loops of updateContacts that sets the new contacts
\* before fusing the maintained ones; the order of the handlings must tell it from the code
HandlerOrderNewFirst(sources, new, removed) ==
  Handled("new", new) \o Handled("maintained", sources) \o Handled("removed", removed)

\* the order in which updateContacts goes over the contacts: the first loop over the
\* found contacts already set, the loop over the found contacts not yet set, the loop
\* over the removed contacts
HandlerOrder(sources, new, removed) ==
  Handled("maintained", sources) \o Handled("new", new) \o Handled("removed", removed)

\* ------------------------------------------------------------- the cycle

\* LeggedOdometryManager::run: the odometry robot takes the configuration and the pose
\* of the real robot, the contacts are detected, updateContacts fuses the pose from the
\* contacts already set, writes it to the odometry robot, sets the new contacts and
\* drops the log entries of the removed ones, updateFbKinematics hands the pose back
Run(detected, s) ==
  /\ pc = "ready"
  /\ \E posW \in {mbcCopy(odometryRobotPosW, RealPose(s))} :
     \E found \in {findContacts(Registry, contactsFound_, detected, contactsDetectionMethod_)} :
     \E selected \in {selectForOrientationOdometry(found.list, found.order, found.contactsFound)} :
     \E loop \in {FusionLoop(selected.list, found.order, found.contactsFound, posW, s,
                             detectionFromThreshold_, withNaiveYawEstimation_, cycle + 1)} :
     \E oriRead \in {OrientationRead(loop, selected.set)} :
     \E junk \in (IF \E i \in oriRead : ContactOf(loop.list, found.order, i).oriCycle = 0
                  THEN JunkYaws ELSE {Rat(0)}) :
     \E fused \in {FusedPose(fbPose_, RealPose(s), loop, found.order, selected.set, junk)} :
     \E updated \in {posWFromFbPose(posW, fused)} :
     \E out \in {updateFbKinematics(updated, RealPose(s), RealVelW(s), RealAccW(s))} :
       LET new == NewlySet(loop.list, found.order, found.contactsFound)
       IN  /\ listContacts_' =
                RemovedContactsLoop(
                  NewContactsLoop(loop.list, found.order, found.contactsFound,
                                  updated, s, detectionFromThreshold_, odometry6d_),
                  found.order, found.removedContacts)
           /\ insertOrder_' = found.order
           /\ idx_' = found.idx
           /\ contactsFound_' = found.contactsFound
           /\ oldContacts_' = found.oldContacts
           /\ removedContacts_' = found.removedContacts
           /\ oriOdometryContacts_' = selected.set
           /\ fbPose_' = fused
           /\ odometryRobotPosW' = updated
           /\ pose' = out.pose
           /\ logEntries' =
                LogRemovedContacts(LogNewContacts(logEntries, found.order, Ascending(new)),
                                   found.order, Ascending(found.removedContacts))
           /\ obs' = [ op |-> "run",
                       s |-> s,
                       sources |-> loop.sources,
                       new |-> new,
                       handled |-> HandlerOrder(loop.sources, new, found.removedContacts),
                       flagged |-> {i \in found.contactsFound :
                                      ContactOf(selected.list, found.order, i).wasAlreadySet_},
                       oriRead |-> oriRead,
                       sumForces_orientation |-> loop.sumForces_orientation,
                       sumForces_position |-> loop.sumForces_position,
                       u |-> IF oriRead # {} /\ Len(selected.set) = 2
                             THEN BlendWeight(ContactOf(loop.list, found.order, selected.set[1]),
                                              loop.sumForces_orientation)
                             ELSE NaN,
                       forcesAtSelect |->
                         [k \in 1..Len(selected.set) |->
                            ContactOf(selected.list, found.order, selected.set[k]).forceNorm_],
                       posePrev |-> pose,
                       fbPrev |-> fbPose_,
                       logPrev |-> logEntries,
                       posWAtKinematics |-> posW,
                       vels |-> out.vels,
                       accs |-> out.accs ]
  /\ cycle' = cycle + 1
  /\ UNCHANGED << pc, configVars, adds >>

Next ==
  \/ \E conf \in Configurations : InitOdometry(conf, 1)
  \/ \E detected \in SUBSET Names, s \in Snapshots : cycle < MaxCycles /\ Run(detected, s)

Spec == Init /\ [][Next]_vars

\* the registry alone, under stand-alone addContact calls
NextRegistry ==
  \/ \E name \in Names, surface \in Surfaces : AddContact(name, surface)
  \/ \E name \in LookupNames : ContactByName(name)
  \/ \E idx \in LookupIds : ContactByIdx(idx)
  \/ \E idx \in LookupIds : NameFromIdx(idx)
  \/ \E name \in LookupNames : IdxFromName(name)

SpecRegistry == Init /\ [][NextRegistry]_vars

\* the selection alone, applied to contacts holding any of these force norms
SelectSensors == <<"LeftFoot", "RightFoot", "RearFoot", "MidFoot", "LeftHand">>

ForceLevels == {0, 25, 50, 100}

InitSelect ==
  /\ pc = "ready"
  /\ insertOrder_ = SelectSensors
  /\ idx_ = Len(SelectSensors)
  /\ \E f \in [1..Len(SelectSensors) -> ForceLevels], flag \in BOOLEAN :
       listContacts_ =
         [n \in {SelectSensors[k] : k \in 1..Len(SelectSensors)} |->
            LET k == CHOOSE k \in 1..Len(SelectSensors) : SelectSensors[k] = n
            IN  [NewContact(k - 1, n, "Sole") EXCEPT
                   !.forceNorm_ = Rat(f[k]),
                   !.useForOrientation_ = flag /\ ~ContainsHand(n)]]
  /\ contactsDetectionMethod_ = "Surfaces"
  /\ contactsFound_ = {}
  /\ oldContacts_ = {}
  /\ removedContacts_ = {}
  /\ oriOdometryContacts_ = << >>
  /\ odometry6d_ = FALSE
  /\ withNaiveYawEstimation_ = TRUE
  /\ detectionFromThreshold_ = FALSE
  /\ fbPose_ = PoseZero
  /\ odometryRobotPosW = PoseZero
  /\ pose = PoseZero
  /\ logEntries = {}
  /\ cycle = 0
  /\ adds = 0
  /\ obs = [op |-> "selectInput"]

\* selectForOrientationOdometry on the contacts found
Select(found) ==
  /\ obs.op = "selectInput"
  /\ \E selected \in {selectForOrientationOdometry(listContacts_, insertOrder_, found)} :
       /\ listContacts_' = selected.list
       /\ oriOdometryContacts_' = selected.set
  /\ contactsFound_' = found
  /\ obs' = [op |-> "select", before |-> listContacts_]
  /\ UNCHANGED << pc, idx_, insertOrder_, configVars, oldContacts_, removedContacts_,
                  fbPose_, odometryRobotPosW, pose, logEntries, cycle, adds >>

NextSelect == \E found \in SUBSET (0..(idx_ - 1)) : Select(found)

SpecSelect == InitSelect /\ [][NextSelect]_vars

\* ------------------------------------------------------------ properties

\* the previous active set and the active set of the cycle that just ran
Maintained == contactsFound_ \cap oldContacts_

\* the candidate C_i of contact i in the cycle that just ran, from the state after it:
\* referencePosition_i + (currentBasePosition - currentContactPosition_i)
CandidateOf(i) ==
  LET c == ContactOf(listContacts_, insertOrder_, i)
      base == RealPose(obs.s)
      k == IF detectionFromThreshold_
           THEN InWorld(base, SensorRel(c.name, obs.s))
           ELSE InWorld(base, SurfaceRel(c.name, obs.s))
  IN  VAdd(c.worldRefKine_.pos, VSub(base.pos, k.pos))

ForceOf(i) == ContactOf(listContacts_, insertOrder_, i).forceNorm_

C2_ForceWeightedPosition ==
  (obs.op = "run" /\ Maintained # {}) =>
    LET S == Maintained
        total == VSum([i \in S |-> VScale(CandidateOf(i), ForceOf(i))], S)
        sum == RSum([i \in S |-> ForceOf(i)], S)
    IN  /\ fbPose_.pos = VDiv(total, sum)
        /\ pose.pos = fbPose_.pos
        /\ \A i, j \in S :
             (S = {i, j} /\ ForceOf(i) = Rat(100) /\ ForceOf(j) = Rat(50)) =>
               fbPose_.pos = VDiv(VAdd(VScale(CandidateOf(i), Rat(100)),
                                       VScale(CandidateOf(j), Rat(50))), Rat(150))
        /\ \A i, j \in S :
             (S = {i, j} /\ i # j /\ ForceOf(i) = ForceOf(j) /\ ForceOf(i) # Rat(0)) =>
               fbPose_.pos = VDiv(VAdd(CandidateOf(i), CandidateOf(j)), Rat(2))

C2_Witness ==
  /\ obs.op = "run"
  /\ \E i, j \in Maintained :
       /\ Maintained = {i, j}
       /\ ForceOf(i) = Rat(100)
       /\ ForceOf(j) = Rat(50)
       /\ CandidateOf(i) # CandidateOf(j)
       /\ IsFinite(fbPose_.pos[1]) /\ IsFinite(fbPose_.pos[2])

\* C3: a cycle without maintained contact outputs the pose the previous cycle output,
\* position and orientation; before the first update the pose is the one stored at init
C3_HeldEstimate ==
  /\ (obs.op = "init" /\ pc = "ready") => fbPose_ = RealPose(obs.s)
  /\ (obs.op = "run" /\ Maintained = {}) =>
       /\ pose = obs.fbPrev
       /\ fbPose_ = obs.fbPrev
       /\ cycle > 1 => pose = obs.posePrev
       /\ cycle = 1 => \E s \in Snapshots : pose = RealPose(s)

C3_Witness ==
  /\ obs.op = "run"
  /\ cycle = 3
  /\ contactsFound_ # {}
  /\ Maintained = {}
  /\ pose = obs.posePrev
  /\ \A s \in Snapshots : pose # RealPose(s)

\* the contacts held in the candidate set
Held == {oriOdometryContacts_[k] : k \in 1..Len(oriOdometryContacts_)}

\* the found contacts the selection may take, and the force each one carried when the
\* selection ran
Eligible == {i \in contactsFound_ : ~ContainsHand(insertOrder_[i + 1])}

OfferedForce(i) == obs.before[insertOrder_[i + 1]].forceNorm_

\* C4: after selectForOrientationOdometry the candidate set holds at most two contacts,
\* whatever the number of eligible contacts found
C4_AtMostTwoCandidates ==
  /\ Len(oriOdometryContacts_) <= 2
  /\ Cardinality(Held) = Len(oriOdometryContacts_)
  /\ obs.op = "select" => Held \subseteq Eligible

C4_Witness ==
  /\ obs.op = "select"
  /\ Cardinality(Eligible) = 4
  /\ Cardinality({OfferedForce(i) : i \in Eligible}) >= 3
  /\ Len(oriOdometryContacts_) = 2

\* C5: offered more than two eligible contacts of pairwise distinct forces, the selection
\* keeps exactly the two of highest force and clears useForOrientation_ of the others
C5_TwoStrongestKept ==
  (/\ obs.op = "select"
   /\ Cardinality(Eligible) > 2
   /\ \A i, j \in Eligible : i # j => OfferedForce(i) # OfferedForce(j)) =>
    LET strongest == {i \in Eligible :
                        Cardinality({j \in Eligible : RLess(OfferedForce(i), OfferedForce(j))}) < 2}
    IN  /\ Held = strongest
        /\ Cardinality(Held) = 2
        /\ \A i \in Eligible \ strongest :
             ~ContactOf(listContacts_, insertOrder_, i).useForOrientation_
        /\ \A i \in strongest :
             ContactOf(listContacts_, insertOrder_, i).useForOrientation_

C5_Witness ==
  /\ obs.op = "select"
  /\ Cardinality(Eligible) = 4
  /\ \A i, j \in Eligible : i # j => OfferedForce(i) # OfferedForce(j)
  /\ Held = {0, 2}
  /\ obs.before[insertOrder_[2]].useForOrientation_
  /\ ~ContactOf(listContacts_, insertOrder_, 1).useForOrientation_

\* C6: a call of addContactToManager with a name already held returns the contact held
\* under it and leaves idx_, the contact, its id and the insertion order unchanged,
\* whatever the surface given
C6_AddContactIdempotent ==
  (obs.op = "addContact" /\ obs.name \in DOMAIN obs.before.list) =>
    /\ obs.returned = obs.before.list[obs.name]
    /\ idx_ = obs.before.idx
    /\ insertOrder_ = obs.before.order
    /\ listContacts_ = obs.before.list
    /\ listContacts_[obs.name].id = obs.before.list[obs.name].id

C6_Witness ==
  /\ obs.op = "addContact"
  /\ obs.name \in DOMAIN obs.before.list
  /\ obs.surface # obs.before.list[obs.name].surface
  /\ obs.before.idx >= 2

\* C7: the k-th distinct name inserted has id k (from 0): the ids are distinct, given in
\* increasing order and never reused, idx_ is the number of contacts, and
\* getNameFromIdx(getIdxFromName(n)) = n for every name held
C7_SequentialIds ==
  /\ idx_ = Len(insertOrder_)
  /\ idx_ = Cardinality(DOMAIN listContacts_)
  /\ \A k \in 1..Len(insertOrder_) :
       /\ insertOrder_[k] \in DOMAIN listContacts_
       /\ listContacts_[insertOrder_[k]].id = k - 1
  /\ \A n, m \in DOMAIN listContacts_ :
       listContacts_[n].id = listContacts_[m].id => n = m
  /\ \A n \in DOMAIN listContacts_ : getNameFromIdx(getIdxFromName(n)) = n
  /\ obs.op = "addContact" =>
       /\ SubSeq(insertOrder_, 1, Len(obs.before.order)) = obs.before.order
       /\ \A n \in DOMAIN obs.before.list : listContacts_[n].id = obs.before.list[n].id
       /\ obs.name \notin DOMAIN obs.before.list => obs.returned.id = obs.before.idx

C7_Witness ==
  /\ idx_ = 3
  /\ adds = 4
  /\ obs.op = "addContact"
  /\ obs.name \notin DOMAIN obs.before.list
  /\ getIdxFromName(obs.name) = 2

\* C8: in flat odometry the reference kinematics computed for a new contact have height
\* exactly 0, whatever the height of the contact in the robot and whichever of the sensor
\* frame and the surface anchors it; so every active contact holds a reference height 0
C8_FlatReferenceHeight ==
  ~odometry6d_ =>
    /\ \A i \in contactsFound_ :
         ContactOf(listContacts_, insertOrder_, i).worldRefKine_.pos[2] = Rat(0)
    /\ \A n \in Names, s \in Snapshots, fromThreshold \in BOOLEAN :
         setNewContact(NewContact(0, n, ""), fbPose_, s, fromThreshold, odometry6d_).pos[2]
           = Rat(0)

C8_Witness ==
  /\ obs.op = "run"
  /\ ~odometry6d_
  /\ \E i \in obs.new :
       LET c == ContactOf(listContacts_, insertOrder_, i)
           live == InWorld(fbPose_, SurfaceRel(c.name, obs.s)).pos[2]
       IN  /\ IsFinite(live)
           /\ live # Rat(0)
           /\ c.worldRefKine_.pos[1] = InWorld(fbPose_, SurfaceRel(c.name, obs.s)).pos[1]
           /\ c.worldRefKine_.pos[2] = Rat(0)

\* C9: a cycle writes worldRefKine_ of a contact if and only if the contact is in the
\* active set of the cycle and was not in the previous one: once per activation, not
\* while the contact is maintained, again when it is found after having been removed
C9_ReferenceWrittenIffNew ==
  [][cycle' = cycle + 1 =>
       \A n \in DOMAIN listContacts_' :
         LET after == listContacts_'[n]
             held == n \in DOMAIN listContacts_
             writesBefore == IF held THEN listContacts_[n].refWrites ELSE 0
             refBefore == IF held THEN listContacts_[n].worldRefKine_ ELSE PoseZero
         IN  IF after.id \in contactsFound_' \ contactsFound_
             THEN /\ after.refWrites = writesBefore + 1
                  /\ after.worldRefKine_ =
                       setNewContact(after, fbPose_', obs'.s, detectionFromThreshold_, odometry6d_)
             ELSE /\ after.refWrites = writesBefore
                  /\ after.worldRefKine_ = refBefore]_vars

C9_Witness ==
  /\ obs.op = "run"
  /\ cycle = 3
  /\ \E i \in obs.new : ContactOf(listContacts_, insertOrder_, i).refWrites = 2
  /\ \E i \in Maintained : ContactOf(listContacts_, insertOrder_, i).refWrites = 1

\* C10: at the fusion of a cycle wasAlreadySet_ of a contact is true if and only if the
\* contact was in the previous active set, so a contact first found in the cycle is
\* neither a position source nor an orientation source of the cycle
C10_NewContactNeverSource ==
  obs.op = "run" =>
    /\ obs.flagged = contactsFound_ \cap oldContacts_
    /\ obs.sources \subseteq oldContacts_
    /\ obs.oriRead \subseteq oldContacts_

\* C10, the part the cycle keeps: the flag tells the previous active set and the
\* position sources are the maintained contacts
C10_FlagAndPositionSources ==
  obs.op = "run" =>
    /\ obs.flagged = contactsFound_ \cap oldContacts_
    /\ obs.sources = contactsFound_ \cap oldContacts_

\* the orientation update reads the orientation of a contact found for the first time
\* in the cycle, which was never computed
C10_Witness ==
  /\ obs.op = "run"
  /\ \E i \in obs.oriRead :
       /\ i \in obs.new
       /\ i \notin oldContacts_
       /\ ContactOf(listContacts_, insertOrder_, i).refWrites = 1
       /\ ContactOf(listContacts_, insertOrder_, i).oriCycle = 0

\* the places of the handlings of one kind in the order the last cycle handled the contacts
PlacesOf(kind) == {k \in 1..Len(obs.handled) : obs.handled[k][1] = kind}

\* the handlings of one kind go over the contacts in ascending id, the insertion order
InInsertionOrder(kind) ==
  \A k, l \in PlacesOf(kind) :
    k < l => /\ obs.handled[k][2] < obs.handled[l][2]
             /\ \E m, n \in 1..Len(insertOrder_) :
                  /\ m < n
                  /\ insertOrder_[m] = getNameFromIdx(obs.handled[k][2])
                  /\ insertOrder_[n] = getNameFromIdx(obs.handled[l][2])

\* every contact of each part is handled once, as its part
EachHandledOnce ==
  /\ {obs.handled[k][2] : k \in PlacesOf("new")} = contactsFound_ \ oldContacts_
  /\ {obs.handled[k][2] : k \in PlacesOf("maintained")} = contactsFound_ \cap oldContacts_
  /\ {obs.handled[k][2] : k \in PlacesOf("removed")} = removedContacts_
  /\ Len(obs.handled) = Cardinality((contactsFound_ \cup oldContacts_))
  /\ InInsertionOrder("new")
  /\ InInsertionOrder("maintained")
  /\ InInsertionOrder("removed")

\* C11 as stated: in a cycle the new contacts are handled first, in insertion order,
\* then the maintained contacts, then the removed contacts
C11_NewMaintainedRemoved ==
  obs.op = "run" =>
    /\ EachHandledOnce
    /\ \A k \in PlacesOf("new"), l \in PlacesOf("maintained") : k < l
    /\ \A k \in PlacesOf("maintained"), l \in PlacesOf("removed") : k < l

\* C11 amended: in a cycle the maintained contacts are handled first (the fusion), then
\* the new contacts, in insertion order, then the removed contacts; the reference of a
\* new contact is taken from the pose the fusion of the same cycle left
C11_MaintainedNewRemoved ==
  obs.op = "run" =>
    /\ EachHandledOnce
    /\ \A k \in PlacesOf("maintained"), l \in PlacesOf("new") : k < l
    /\ \A k \in PlacesOf("new"), l \in PlacesOf("removed") : k < l
    /\ \A k \in PlacesOf("maintained"), l \in PlacesOf("removed") : k < l
    /\ \A i \in obs.new :
         ContactOf(listContacts_, insertOrder_, i).worldRefKine_ =
           setNewContact(ContactOf(listContacts_, insertOrder_, i), fbPose_, obs.s,
                         detectionFromThreshold_, odometry6d_)

C11_Witness ==
  /\ obs.op = "run"
  /\ Cardinality(PlacesOf("new")) = 1
  /\ Cardinality(PlacesOf("maintained")) = 1
  /\ Cardinality(PlacesOf("removed")) = 1
  /\ obs.handled[1][1] = "maintained"
  /\ obs.handled[2][1] = "new"
  /\ fbPose_ # obs.fbPrev

\* the detection modes a configuration may name
DocumentedModes == {"Solver", "Surfaces", "Sensors"}

\* C12: an initialisation with a detection-mode string other than Solver, Surfaces and
\* Sensors fails, and no cycle runs with an unrecognised or undefined detection mode
C12_UnknownModeRejected ==
  /\ (obs.op = "init" /\ obs.conf.str \notin DocumentedModes) => pc = "failed"
  /\ pc = "ready" => contactsDetectionMethod_ \in DocumentedModes
  /\ cycle > 0 => contactsDetectionMethod_ \in DocumentedModes

\* C12, the part the initialisation keeps: a string stringToContactsDetection does not
\* know makes the initialisation fail, and no cycle follows
C12_UnlistedStringFails ==
  /\ (obs.op = "init" /\ obs.conf.str \notin DOMAIN strToContactsDetection) => pc = "failed"
  /\ pc = "failed" => cycle = 0 /\ contactsDetectionMethod_ = "Undefined"

\* a cycle has run under the detection mode Undefined, accepted at the initialisation
C12_Witness ==
  /\ obs.op = "run"
  /\ pc = "ready"
  /\ contactsDetectionMethod_ = "Undefined"
  /\ contactsFound_ # {}

\* C13: a lookup by a name never added or by an id outside 0..(number of contacts - 1)
\* throws and leaves contacts, insertion order and idx_ unchanged; a lookup never creates
\* a contact and never returns another contact than the one asked for
C13_LookupNotFound ==
  /\ obs.op \in {"contactByName", "contactByIdx", "getNameFromIdx", "getIdxFromName"} =>
       Registry = obs.before
  /\ obs.op \in {"contactByName", "getIdxFromName"} =>
       obs.result.thrown = (obs.name \notin DOMAIN listContacts_)
  /\ obs.op \in {"contactByIdx", "getNameFromIdx"} =>
       obs.result.thrown = (obs.idx \notin 0..(Cardinality(DOMAIN listContacts_) - 1))
  /\ (obs.op = "contactByName" /\ ~obs.result.thrown) =>
       obs.result.value = listContacts_[obs.name] /\ obs.result.value.name = obs.name
  /\ (obs.op = "contactByIdx" /\ ~obs.result.thrown) =>
       obs.result.value.id = obs.idx /\ obs.result.value \in {listContacts_[n] : n \in DOMAIN listContacts_}
  /\ (obs.op = "getNameFromIdx" /\ ~obs.result.thrown) =>
       listContacts_[obs.result.value].id = obs.idx
  /\ (obs.op = "getIdxFromName" /\ ~obs.result.thrown) =>
       obs.result.value = listContacts_[obs.name].id

C13_Witness ==
  /\ obs.op = "contactByIdx"
  /\ idx_ = 2
  /\ obs.idx = 2
  /\ obs.result.thrown
  /\ "LeftFoot" \notin DOMAIN listContacts_

\* the registry over its lifetime: contacts added by hand before and between the cycles
\* of an odometry that creates the contacts it detects
LifetimeConfiguration ==
  [overload |-> "sensors", str |-> "Solver", odometry6d |-> FALSE, naiveYaw |-> FALSE]

\* the insertions by hand over a lifetime
MaxLifetimeAdds == 2

NextLifetime ==
  \/ \E name \in Names : adds < MaxLifetimeAdds /\ AddContact(name, "")
  \/ InitOdometry(LifetimeConfiguration, 1)
  \/ \E detected \in SUBSET Names : cycle < MaxCycles /\ Run(detected, 0)

SpecLifetime == Init /\ [][NextLifetime]_vars

\* C14: the registry never loses a contact: over insertions and cycles the list of names
\* only grows by appending, each list is a prefix of the later ones, every contact keeps
\* its id, and a removed contact is still found under its name and its id
C14_RegistryOnlyGrows ==
  [][/\ Len(insertOrder_') >= Len(insertOrder_)
     /\ SubSeq(insertOrder_', 1, Len(insertOrder_)) = insertOrder_
     /\ idx_' >= idx_
     /\ \A n \in DOMAIN listContacts_ :
          /\ n \in DOMAIN listContacts_'
          /\ listContacts_'[n].id = listContacts_[n].id
          /\ listContacts_'[n].name = n
     /\ \A i \in removedContacts_' :
          /\ ~VectorAt(insertOrder_', i).thrown
          /\ ~MapAt(listContacts_', VectorAt(insertOrder_', i).value).thrown
          /\ MapAt(listContacts_', VectorAt(insertOrder_', i).value).value.id = i
          /\ VectorAt(insertOrder_', i).value = insertOrder_[i + 1]]_vars

C14_Witness ==
  /\ obs.op = "run"
  /\ adds > 0
  /\ idx_ = 3
  /\ removedContacts_ # {}
  /\ insertOrder_[1] # RobotSensors[1]
  /\ \E i \in removedContacts_ : ContactOf(listContacts_, insertOrder_, i).refWrites > 0

\* the blend of two orientations alone, for any two yaws and any two forces
BlendYaws == {-3, -1, 0, 2, 3, 5}

InitBlend ==
  /\ pc = "ready"
  /\ idx_ = 0
  /\ insertOrder_ = << >>
  /\ listContacts_ = << >>
  /\ contactsDetectionMethod_ = "Surfaces"
  /\ contactsFound_ = {}
  /\ oldContacts_ = {}
  /\ removedContacts_ = {}
  /\ oriOdometryContacts_ = << >>
  /\ odometry6d_ = FALSE
  /\ withNaiveYawEstimation_ = TRUE
  /\ detectionFromThreshold_ = FALSE
  /\ fbPose_ = PoseZero
  /\ odometryRobotPosW = PoseZero
  /\ pose = PoseZero
  /\ logEntries = {}
  /\ cycle = 0
  /\ adds = 0
  /\ \E yaw1, yaw2 \in BlendYaws, force1, force2 \in ForceLevels, s \in Snapshots :
       obs = [ op |-> "blendInput",
               R1 |-> [tilt |-> 1, yaw |-> Rat(yaw1)],
               R2 |-> [tilt |-> 2, yaw |-> Rat(yaw2)],
               force1 |-> Rat(force1),
               force2 |-> Rat(force2),
               realRobotOri |-> RealPose(s).ori ]

\* the two-contact branch of the orientation update of updateContacts
Blend ==
  /\ obs.op = "blendInput"
  /\ \E u \in {RDiv(obs.force1, RAdd(obs.force1, obs.force2))} :
     \E meanOri \in {MeanOri(obs.R1, obs.R2, u)} :
       obs' = [ op |-> "blend", R1 |-> obs.R1, R2 |-> obs.R2,
                force1 |-> obs.force1, force2 |-> obs.force2, u |-> u,
                meanOri |-> meanOri,
                rotation |-> mergeRoll1Pitch1WithYaw2(obs.realRobotOri, meanOri) ]
  /\ UNCHANGED << pc, registryVars, configVars, cycleVars, adds >>

NextBlend == Blend

SpecBlend == InitBlend /\ [][NextBlend]_vars

\* the angle between two rotations about the vertical, along the shorter way round
YawDistance(a, b) ==
  LET d == Principal(RSub(a, b)) IN IF RLess(d, Rat(0)) THEN RNeg(d) ELSE d

\* C15: with equal forces (u = 1/2) the blend of R1 and R2 is the geodesic midpoint: at
\* the same angle from both, half the angle between them; the angle from R1 to the blend
\* is 1 - u of the angle between R1 and R2, and with all the force on contact 1 (u = 1)
\* the blend is R1
C15_BlendMidpoint ==
  (obs.op = "blend" /\ IsFinite(obs.u)) =>
    LET between == YawDistance(obs.R1.yaw, obs.R2.yaw)
        fromR1 == YawDistance(obs.meanOri.yaw, obs.R1.yaw)
        fromR2 == YawDistance(obs.meanOri.yaw, obs.R2.yaw)
    IN  /\ obs.force1 = obs.force2 => obs.u = <<1, 2>>
        /\ obs.u = <<1, 2>> => /\ fromR1 = fromR2
                               /\ RAdd(fromR1, fromR2) = between
        /\ fromR1 = RMul(RSub(Rat(1), obs.u), between)
        /\ obs.u = Rat(1) => fromR1 = Rat(0)
        /\ obs.force2 = Rat(0) => obs.u = Rat(1)

C15_Witness ==
  /\ obs.op = "blend"
  /\ obs.u = <<1, 2>>
  /\ obs.R1.yaw = Rat(3)
  /\ obs.R2.yaw = Rat(-3)
  /\ YawDistance(obs.meanOri.yaw, Rat(4)) = Rat(0)

\* the force norms the contacts of the candidate set hold after the cycle, those the
\* orientation update found in them
ForcesAtFusion ==
  [k \in 1..Len(oriOdometryContacts_) |->
     ContactOf(listContacts_, insertOrder_, oriOdometryContacts_[k]).forceNorm_]

Ascends(forces) == \A k, l \in 1..Len(forces) : k < l => ~RLess(forces[l], forces[k])

\* C16: each time a cycle reads the candidate set, after the selection and in the
\* orientation update, its contacts are in ascending order of the force norm they hold
\* then, although forceNorm_ is rewritten in between
C16_AscendingWhenRead ==
  obs.op = "run" =>
    /\ Ascends(obs.forcesAtSelect)
    /\ obs.oriRead # {} => Ascends(ForcesAtFusion)

\* C16, the part the cycle keeps: right after the selection the candidate set ascends
\* strictly in the force norms its contacts hold at that moment
C16_AscendingAfterSelection ==
  obs.op = "run" =>
    /\ Len(obs.forcesAtSelect) = Len(oriOdometryContacts_)
    /\ \A k, l \in 1..Len(obs.forcesAtSelect) :
         k < l => RLess(obs.forcesAtSelect[k], obs.forcesAtSelect[l])

\* the orientation update reads two contacts of which the first holds the larger force
C16_Witness ==
  /\ obs.op = "run"
  /\ Len(oriOdometryContacts_) = 2
  /\ obs.oriRead = Maintained
  /\ Cardinality(obs.oriRead) = 2
  /\ RLess(obs.forcesAtSelect[1], obs.forcesAtSelect[2])
  /\ RLess(ForcesAtFusion[2], ForcesAtFusion[1])

\* C17: in every cycle every contact of the candidate set is maintained, in the active
\* set and in the previous one; a contact found for the first time in the cycle is never
\* in the set
C17_CandidatesMaintained ==
  obs.op = "run" =>
    /\ Held \subseteq contactsFound_ \cap oldContacts_
    /\ Held \cap obs.new = {}

\* C17, the part the cycle keeps: every contact of the candidate set is in the active
\* set and is not a hand
C17_CandidatesActive ==
  obs.op = "run" =>
    /\ Held \subseteq contactsFound_
    /\ \A i \in Held : ~ContainsHand(getNameFromIdx(i))

\* the candidate set holds a contact set in the very cycle, ahead of a maintained one
C17_Witness ==
  /\ obs.op = "run"
  /\ Len(oriOdometryContacts_) = 2
  /\ oriOdometryContacts_[1] \in obs.new
  /\ oriOdometryContacts_[1] \notin oldContacts_
  /\ oriOdometryContacts_[2] \in Maintained

\* the odometry over a longer walk on the two feet, with yaw estimation
MaxStanceCycles == 4

StanceConfiguration ==
  [overload |-> "surfaces", str |-> "Surfaces", odometry6d |-> FALSE, naiveYaw |-> TRUE]

NextStance ==
  \/ InitOdometry(StanceConfiguration, 1)
  \/ \E detected \in SUBSET {"LeftFoot", "RightFoot"}, s \in Snapshots :
       cycle < MaxStanceCycles /\ Run(detected, s)

SpecStance == Init /\ [][NextStance]_vars

\* C18: in the orientation update with two contacts the weight is
\* u = force1 / (force1 + force2) for the forces of the two contacts of the candidate
\* set: the divisor is the sum of these two forces, and u lies between 0 and 1
C18_WeightOfTwoCandidates ==
  (obs.op = "run" /\ obs.oriRead # {} /\ Len(oriOdometryContacts_) = 2) =>
    LET force1 == ForcesAtFusion[1]
        force2 == ForcesAtFusion[2]
    IN  /\ obs.sumForces_orientation = RAdd(force1, force2)
        /\ obs.u = RDiv(force1, RAdd(force1, force2))
        /\ ~RLess(obs.u, Rat(0))
        /\ ~RLess(Rat(1), obs.u)

\* C18, the part the cycle keeps: the weight is the force of the first contact over the
\* force sum of the loop, which is the sum of the two forces when both contacts of the
\* set are maintained
C18_WeightWhenBothMaintained ==
  (obs.op = "run" /\ obs.oriRead # {} /\ Len(oriOdometryContacts_) = 2) =>
    /\ obs.u = RDiv(ForcesAtFusion[1], obs.sumForces_orientation)
    /\ Held \subseteq Maintained =>
         /\ obs.sumForces_orientation = RAdd(ForcesAtFusion[1], ForcesAtFusion[2])
         /\ ~RLess(obs.u, Rat(0))
         /\ ~RLess(Rat(1), obs.u)

\* the first contact of the set is set anew in the cycle and still holds the force of
\* its former stance, which the force sum of the loop leaves out
C18_Witness ==
  /\ obs.op = "run"
  /\ obs.oriRead # {}
  /\ Len(oriOdometryContacts_) = 2
  /\ oriOdometryContacts_[1] \in obs.new
  /\ ForcesAtFusion[1] # Rat(0)
  /\ obs.sumForces_orientation = ForcesAtFusion[2]

\* the orientations the orientation update of the last cycle read from the candidates
OrientationsRead ==
  { ContactOf(listContacts_, insertOrder_, i).currentWorldOrientation_ : i \in obs.oriRead }

\* C19: whenever the base orientation is updated in a cycle, with one or with two
\* candidates, its roll and pitch are those of the tilt estimate supplied for that cycle,
\* whatever the orientations of the contacts are
C19_TiltFromEstimate ==
  (obs.op = "run" /\ obs.oriRead # {}) =>
    fbPose_.ori.tilt = RealPose(obs.s).ori.tilt

\* the orientation is updated from two candidates, one of them with another roll and
\* pitch than the estimate, the yaw comes out of the contacts and the roll and pitch of
\* the base change in the cycle
C19_Witness ==
  /\ obs.op = "run"
  /\ Cardinality(obs.oriRead) = 2
  /\ \E R \in OrientationsRead : R.tilt # RealPose(obs.s).ori.tilt
  /\ fbPose_.ori.yaw # RealPose(obs.s).ori.yaw
  /\ fbPose_.ori.tilt # obs.fbPrev.ori.tilt

\* the heading a velocity or acceleration of the real robot of the last cycle takes in
\* the frame of base pose P
HeadingIn(w, P) == RAdd(RSub(w, RealPose(obs.s).ori.yaw), P.ori.yaw)

\* C20: the fused pose of a cycle is in the odometry robot before the velocities and
\* accelerations of the cycle are derived, and when the next cycle computes the
\* kinematics of the contacts the floating base of the odometry robot is at the pose
\* the cycle before gave out
C20_NextCycleFromFusedPose ==
  (obs.op = "run" /\ cycle >= 2) =>
    /\ odometryRobotPosW = fbPose_
    /\ obs.vels = HeadingIn(RealVelW(obs.s), fbPose_)
    /\ obs.accs = HeadingIn(RealAccW(obs.s), fbPose_)
    /\ obs.posWAtKinematics = obs.posePrev

\* C20, as the cycle runs: the fused pose is in the odometry robot when the pose, the
\* velocities and the accelerations of the cycle are given out, and the contact
\* kinematics of a cycle are computed with the floating base at the pose of the real
\* robot of that cycle
C20_FusedPoseThenRealRobotBase ==
  obs.op = "run" =>
    /\ odometryRobotPosW = fbPose_
    /\ pose = fbPose_
    /\ obs.vels = HeadingIn(RealVelW(obs.s), fbPose_)
    /\ obs.accs = HeadingIn(RealAccW(obs.s), fbPose_)
    /\ obs.posWAtKinematics = RealPose(obs.s)

\* a second or later cycle fuses the kinematics of maintained contacts from a base
\* pose that is not the one the cycle before gave out, and gives out a yaw that is not
\* the one of the real robot
C20_Witness ==
  /\ obs.op = "run"
  /\ cycle >= 2
  /\ obs.sources # {}
  /\ obs.posWAtKinematics # obs.posePrev
  /\ fbPose_.ori.yaw # RealPose(obs.s).ori.yaw
  /\ fbPose_ # obs.fbPrev

\* the anchor of a new contact of the last cycle when frame rel, given relative to the
\* base, is taken in the odometry robot
AnchorOf(rel) ==
  LET k == InWorld(fbPose_, rel)
  IN  [pos |-> <<k.pos[1], RefHeight(k.pos[2], odometry6d_)>>, ori |-> k.ori]

\* C21: the anchor of a new contact follows the configured detection mode: under the
\* mode Sensors it is the frame of the force sensor taken through the world pose of its
\* parent body, under the other modes it is the world pose of the surface of the
\* contact; no accepted configuration mixes the two
C21_AnchorFollowsDetectionMode ==
  obs.op = "run" =>
    \A i \in obs.new :
      LET c == ContactOf(listContacts_, insertOrder_, i)
      IN  c.worldRefKine_ =
            IF contactsDetectionMethod_ = "Sensors"
            THEN AnchorOf(SensorRel(c.name, obs.s))
            ELSE AnchorOf(SurfaceRel(c.name, obs.s))

\* C21, as the initialisation leaves it: the flag of the threshold policy is set for
\* the string fromThreshold only, which the contacts manager then rejects, so every
\* cycle anchors its new contacts on the pose of their surface
C21_SurfaceAnchorInEveryMode ==
  /\ pc = "ready" => ~detectionFromThreshold_
  /\ detectionFromThreshold_ => pc = "failed" /\ cycle = 0
  /\ obs.op = "run" =>
       \A i \in obs.new :
         LET c == ContactOf(listContacts_, insertOrder_, i)
         IN  c.worldRefKine_ = AnchorOf(SurfaceRel(c.name, obs.s))

\* under the mode Sensors a cycle anchors a new contact on the pose of its surface,
\* which is not the pose of its sensor frame
C21_Witness ==
  /\ obs.op = "run"
  /\ contactsDetectionMethod_ = "Sensors"
  /\ \E i \in obs.new :
       LET c == ContactOf(listContacts_, insertOrder_, i)
       IN  /\ c.worldRefKine_ = AnchorOf(SurfaceRel(c.name, obs.s))
           /\ c.worldRefKine_ # AnchorOf(SensorRel(c.name, obs.s))

\* the maintained contacts the orientation of a cycle can be estimated from: the
\* sources of the position that are kept for the orientation
OrientationEligible(o, list, order) ==
  {i \in o.sources : ContactOf(list, order, i).useForOrientation_}

\* C22: a cycle that runs with the orientation estimation disabled, or with no
\* maintained contact eligible for the orientation, leaves the orientation of the base
\* as it was; with the estimation disabled the orientation stays the one stored at the
\* initialisation, whatever the number of cycles
C22_OrientationKept ==
  [][cycle' = cycle + 1 =>
       /\ (\/ ~withNaiveYawEstimation_
           \/ OrientationEligible(obs', listContacts_', insertOrder_') = {})
            => fbPose_'.ori = fbPose_.ori
       /\ ~withNaiveYawEstimation_ => /\ fbPose_.ori = RealPose(1).ori
                                      /\ fbPose_'.ori = RealPose(1).ori]_vars

\* with the estimation enabled a cycle maintains hand contacts only: it updates the
\* position and keeps an orientation that is not the one of the real robot
C22_Witness ==
  /\ obs.op = "run"
  /\ withNaiveYawEstimation_
  /\ obs.sources # {}
  /\ OrientationEligible(obs, listContacts_, insertOrder_) = {}
  /\ fbPose_.pos # obs.fbPrev.pos
  /\ IsFinite(fbPose_.pos[1])
  /\ fbPose_.ori = obs.fbPrev.ori
  /\ fbPose_.ori # RealPose(obs.s).ori

\* with the estimation disabled a third cycle maintains foot contacts: it updates the
\* position and the orientation is still the one stored at the initialisation
C22_WitnessDisabled ==
  /\ obs.op = "run"
  /\ ~withNaiveYawEstimation_
  /\ cycle >= 3
  /\ \E i \in obs.sources : ContactOf(listContacts_, insertOrder_, i).useForOrientation_
  /\ fbPose_.pos # obs.fbPrev.pos
  /\ fbPose_.ori = RealPose(1).ori
  /\ fbPose_.ori # RealPose(obs.s).ori

\* the log entries of the contacts with the ids of the set
EntriesOfIds(ids) == UNION {LogEntriesOf(insertOrder_[i + 1]) : i \in ids}

\* C23: the three log entries of a contact are added in the cycle the contact is new
\* and removed in the cycle it is removed, so after every cycle the registered entries
\* are those of the active contacts; no entry is added while registered and none is
\* removed while not registered
C23_LogFollowsLifecycle ==
  /\ cycle = 0 => logEntries = {}
  /\ obs.op = "run" =>
       /\ logEntries = EntriesOfIds(contactsFound_)
       /\ logEntries = (obs.logPrev \cup EntriesOfIds(obs.new)) \ EntriesOfIds(removedContacts_)
       /\ EntriesOfIds(obs.new) \cap obs.logPrev = {}
       /\ EntriesOfIds(removedContacts_) \subseteq obs.logPrev
       /\ \A i \in contactsFound_ : Cardinality(LogEntriesOf(insertOrder_[i + 1])) = 3

\* a cycle registers the entries of a contact for its second stance and removes those
\* of another contact
C23_Witness ==
  /\ obs.op = "run"
  /\ \E i \in obs.new :
       /\ ContactOf(listContacts_, insertOrder_, i).refWrites >= 2
       /\ LogEntriesOf(insertOrder_[i + 1]) \subseteq logEntries
  /\ \E i \in removedContacts_ :
       /\ LogEntriesOf(insertOrder_[i + 1]) \subseteq obs.logPrev
       /\ LogEntriesOf(insertOrder_[i + 1]) \cap logEntries = {}

\* the contacts of the registry on the sensor of the robot whose name contains "Hand"
Hands == {i \in 0..(idx_ - 1) : insertOrder_[i + 1] = "LeftHand"}

\* the force norm of the contacts after the cycle; for a maintained contact it is the
\* one the fusion weighted the contact with
ForceNormOf == [i \in 0..(idx_ - 1) |-> ContactOf(listContacts_, insertOrder_, i).forceNorm_]

\* C24: a contact whose name contains "Hand" is never in the candidate set, is never
\* read by the orientation update and never counts in the orientation force sum; when
\* maintained it is a source of the position and counts in the position force sum
C24_HandsOutOfOrientation ==
  /\ \A i \in Hands :
       /\ i \notin Held
       /\ ~ContactOf(listContacts_, insertOrder_, i).useForOrientation_
  /\ obs.op = "run" =>
       /\ obs.oriRead \cap Hands = {}
       /\ obs.sumForces_orientation =
            IF withNaiveYawEstimation_
            THEN RSum(ForceNormOf, OrientationEligible(obs, listContacts_, insertOrder_) \ Hands)
            ELSE Rat(0)
       /\ (Maintained \cap Hands) \subseteq obs.sources
       /\ obs.sumForces_position = RSum(ForceNormOf, obs.sources)

\* a cycle maintains a hand and a foot under forces that are not zero: the hand counts
\* in the position force sum and not in the orientation force sum, and the orientation
\* is updated from the foot
C24_Witness ==
  /\ obs.op = "run"
  /\ withNaiveYawEstimation_
  /\ obs.oriRead # {}
  /\ \E i \in Maintained \cap Hands :
       /\ ForceNormOf[i] # Rat(0)
       /\ obs.sumForces_position = RAdd(obs.sumForces_orientation, ForceNormOf[i])
  /\ fbPose_.ori # obs.fbPrev.ori

C26_PositiveDivisor ==
  (obs.op = "run" /\ obs.sources # {}) =>
    /\ RLess(Rat(0), obs.sumForces_position)
    /\ IsFinite(fbPose_.pos[1])
    /\ IsFinite(fbPose_.pos[2])

\* C26, as the cycle runs: the divisor is the sum of the force norms of the maintained
\* contacts, which is never negative, and the position is not a number when the
\* divisor is zero
C26_DivisorIsForceSum ==
  (obs.op = "run" /\ obs.sources # {}) =>
    /\ obs.sumForces_position = RSum(ForceNormOf, obs.sources)
    /\ ~RLess(obs.sumForces_position, Rat(0))
    /\ obs.sumForces_position = Rat(0) =>
         ~IsFinite(fbPose_.pos[1]) /\ ~IsFinite(fbPose_.pos[2])

\* a cycle maintains contacts whose sensors read no force: the divisor is zero and the
\* position of the base is not a number
C26_Witness ==
  /\ obs.op = "run"
  /\ obs.sources # {}
  /\ obs.sumForces_position = Rat(0)
  /\ ~IsFinite(fbPose_.pos[1])
  /\ IsFinite(obs.fbPrev.pos[1])

\* the cycle that computed the orientation candidate contact i holds; 0 when it was
\* never computed
CandidateCycle(i) == ContactOf(listContacts_, insertOrder_, i).oriCycle

\* C27: every orientation candidate the update of the orientation reads in a cycle was
\* computed in that cycle; none is left over from an earlier cycle or never computed
C27_CandidatesOfTheCycle ==
  obs.op = "run" =>
    \A i \in obs.oriRead : CandidateCycle(i) = cycle

\* C27, as the cycle runs: the candidates read from maintained contacts are those of
\* the cycle, and a candidate that is not of the cycle is read from a contact set anew
\* in the cycle
C27_MaintainedCandidatesOfTheCycle ==
  obs.op = "run" =>
    \A i \in obs.oriRead :
      /\ i \in obs.sources => CandidateCycle(i) = cycle
      /\ CandidateCycle(i) # cycle => i \in obs.new /\ i \in Held

\* the update blends the candidate of the cycle of a maintained contact with the one a
\* contact set anew kept from its former stance
C27_Witness ==
  /\ obs.op = "run"
  /\ Cardinality(obs.oriRead) = 2
  /\ \E i \in obs.oriRead : i \in obs.sources /\ CandidateCycle(i) = cycle
  /\ \E i \in obs.oriRead :
       /\ i \in obs.new
       /\ CandidateCycle(i) > 0
       /\ CandidateCycle(i) < cycle - 1

\* useForOrientation_ of contact i after the selection
FlaggedForOrientation(i) == ContactOf(listContacts_, insertOrder_, i).useForOrientation_

\* C28: after the selection, for every contact of the active set, useForOrientation_ is
\* true if and only if the contact is in oriOdometryContacts_, also when eligible
\* contacts carry equal forces
C28_FlagIffCandidate ==
  obs.op = "select" =>
    \A i \in contactsFound_ : FlaggedForOrientation(i) <=> i \in Held

\* C28, as the selection runs: every contact of the set carries the flag; an active
\* contact that carries the flag outside the set is an eligible contact whose force
\* equals the force of another eligible contact; with pairwise different forces the
\* flag tells the set
C28_FlagIffCandidateOfDistinctForce ==
  obs.op = "select" =>
    /\ \A i \in Held : FlaggedForOrientation(i)
    /\ \A i \in contactsFound_ \ Held :
         FlaggedForOrientation(i) =>
           /\ i \in Eligible
           /\ \E j \in Eligible \ {i} : OfferedForce(j) = OfferedForce(i)
    /\ (\A i, j \in Eligible : i # j => OfferedForce(i) # OfferedForce(j)) =>
         \A i \in contactsFound_ : FlaggedForOrientation(i) <=> i \in Held

\* two feet of equal force are found: the first is in the set, the second got the flag
\* from the selection and is not in the set
C28_Witness ==
  /\ obs.op = "select"
  /\ contactsFound_ = {0, 1}
  /\ OfferedForce(0) = OfferedForce(1)
  /\ Held = {0}
  /\ ~obs.before[insertOrder_[2]].useForOrientation_
  /\ FlaggedForOrientation(1)

\* the anchor of a new contact of the last cycle when its frame, the one of the sensor
\* under the threshold policy and the one of the surface otherwise, is taken from base
\* pose P
AnchorFrom(P, name) ==
  LET k == InWorld(P, IF detectionFromThreshold_
                      THEN SensorRel(name, obs.s) ELSE SurfaceRel(name, obs.s))
  IN  [pos |-> <<k.pos[1], RefHeight(k.pos[2], odometry6d_)>>, ori |-> k.ori]

\* C29: the reference kinematics of the contacts set anew in a cycle are computed once
\* the fused pose of the cycle is in the odometry robot: an anchor is taken from the
\* fused pose, which is the pose the cycle gives out, and not from the pose the contact
\* kinematics were computed with
C29_AnchorFromFusedPose ==
  obs.op = "run" =>
    /\ pose = fbPose_
    /\ \A i \in obs.new :
         LET c == ContactOf(listContacts_, insertOrder_, i)
         IN  /\ c.worldRefKine_ = AnchorFrom(fbPose_, c.name)
             /\ (\/ fbPose_.pos[1] # obs.posWAtKinematics.pos[1]
                 \/ fbPose_.ori # obs.posWAtKinematics.ori)
                  => c.worldRefKine_ # AnchorFrom(obs.posWAtKinematics, c.name)

\* a cycle moves the base with a maintained contact and sets another contact anew; the
\* fused pose differs from the pose before the fusion and the anchor is the one taken
\* from the fused pose
C29_Witness ==
  /\ obs.op = "run"
  /\ obs.sources # {}
  /\ fbPose_ # obs.fbPrev
  /\ IsFinite(fbPose_.pos[1])
  /\ fbPose_.pos[1] # obs.posWAtKinematics.pos[1]
  /\ fbPose_.ori.yaw # obs.posWAtKinematics.ori.yaw
  /\ \E i \in obs.new :
       LET c == ContactOf(listContacts_, insertOrder_, i)
       IN  /\ c.worldRefKine_ = AnchorFrom(pose, c.name)
           /\ c.worldRefKine_ # AnchorFrom(obs.posWAtKinematics, c.name)

====
